---- MODULE Spec2Model ----
(***************************************************************************)
(* Space Golf: the per-frame game loop and hole state machine (class Game  *)
(* of modules/game.js, the copy at src/unnamed/part_002 lines 238-1055),   *)
(* with the Ball (src/src/modules/obstacles.js 1285-1591), the Course      *)
(* (src/unnamed/part_006 9-783), the ObstacleManager (obstacles.js         *)
(* 476-1277) and the InputHandler (src/unnamed/part_005) it drives.        *)
(*                                                                         *)
(* Lengths are integers in tenths of a world unit (0.5 is 5), times are    *)
(* in milliseconds.  The floating-point trajectory of the ball is not      *)
(* reproduced: Ball.update places a moving ball on any of a finite set of  *)
(* sample positions of the current hole (BallSites), and the closed-form   *)
(* obstacle motion is sampled at quarter periods (PhaseSamples).  All the  *)
(* tests the game loop makes on a position (cup, bounds, donut centre,     *)
(* obstacle and black-hole overlap) are computed from the coordinates      *)
(* with the source's formulas.                                             *)
(***************************************************************************)
EXTENDS Integers, Sequences, FiniteSets, TLC

(***************************************************************************)
(* Bounds of the model.                                                    *)
(***************************************************************************)
\* strokes taken on one hole
MaxStrokes == 1
\* holes on the scorecard at one time
MaxCard == 2
\* setTimeout callbacks pending at one time
MaxTimers == 2
\* arguments of getGolfScoreTerminology
MaxLabelStrokes == 12
MaxLabelPar == 7

(***************************************************************************)
(* Program constants (tenths of a unit, milliseconds).                     *)
(***************************************************************************)
BallRadius == 5
HoleRadius == 15
BlackHoleDelay == 500
DonutInnerRadius == 120
BlackHoleRadius == 20
ObstacleRadius == 15
UfoRadius == 80
MovementRange == 50

\* the modes of the mode buttons
Modes == {"prototype", "full"}
\* the time between two frames, in milliseconds
FrameDeltas == {250}
\* the hole numbers handed to switchToHole
HoleInputs == {0, 9, 10}
\* the level-menu entries of the ring-shaped course (hole 4; hole 6 follows
\* by play) with an entry below the range
DonutInputs == {0, 4}
\* the quarter periods at which the obstacle motion is sampled
PhaseSamples == 0 .. 3

Min(a, b) == IF a < b THEN a ELSE b
Max(a, b) == IF a > b THEN a ELSE b
Abs(a) == IF a < 0 THEN 0 - a ELSE a
Sq(a) == a * a

\* the element of a one-element set: x \in {e} holds the value of e, taken
\* once, as a const holds it in the code
The(S) == CHOOSE x \in S : TRUE

RECURSIVE SqrtIter(_, _, _)
SqrtIter(n, lo, hi) ==
    IF lo >= hi THEN lo
    ELSE The({IF mid * mid <= n THEN SqrtIter(n, mid, hi)
                                ELSE SqrtIter(n, lo, mid - 1) :
              mid \in {(lo + hi + 1) \div 2}})

\* floor of the square root (Math.sqrt / Vector3.length on the integer grid)
ISqrt(n) == The({SqrtIter(m, 0, 4000) : m \in {n}})

\* a / b rounded toward zero
DivT(a, b) == IF a >= 0 THEN a \div b ELSE 0 - ((0 - a) \div b)

(***************************************************************************)
(* Course.getHoleConfig: the table of the nine holes.  An index past the   *)
(* table is clamped to the last entry; configs[-1] (holeNumber < 1) is     *)
(* undefined in JavaScript.                                                *)
(***************************************************************************)
configs ==
    << [par |-> 2, start |-> <<0, 200>>, hole |-> <<0, -200>>,
        groundSize |-> [width |-> 150, depth |-> 500], groundShape |-> "rectangle"],
       [par |-> 3, start |-> <<-150, 100>>, hole |-> <<120, -120>>,
        groundSize |-> [width |-> 400, depth |-> 400], groundShape |-> "L"],
       [par |-> 3, start |-> <<0, 250>>, hole |-> <<0, -250>>,
        groundSize |-> [width |-> 200, depth |-> 600], groundShape |-> "rectangle"],
       [par |-> 3, start |-> <<0, 250>>, hole |-> <<0, -250>>,
        groundSize |-> [outerRadius |-> 300, innerRadius |-> 120], groundShape |-> "donut"],
       [par |-> 4, start |-> <<0, 300>>, hole |-> <<0, -300>>,
        groundSize |-> [width |-> 250, depth |-> 700], groundShape |-> "narrow"],
       [par |-> 4, start |-> <<0, 250>>, hole |-> <<0, -250>>,
        groundSize |-> [outerRadius |-> 300, innerRadius |-> 120], groundShape |-> "donut"],
       [par |-> 5, start |-> <<0, 350>>, hole |-> <<0, -350>>,
        groundSize |-> [width |-> 300, depth |-> 800], groundShape |-> "split"],
       [par |-> 5, start |-> <<300, 0>>, hole |-> <<-300, 0>>,
        groundSize |-> [radius |-> 350], groundShape |-> "circular"],
       [par |-> 6, start |-> <<-300, 300>>, hole |-> <<300, -300>>,
        groundSize |-> [width |-> 700, depth |-> 700], groundShape |-> "complex"] >>

getHoleConfig(holeNumber) ==
    LET i == Min(holeNumber - 1, Len(configs) - 1)
    IN  IF i < 0 THEN "undefined" ELSE configs[i + 1]

(***************************************************************************)
(* Course.checkHoleCollision and the shape-specific bounds tests.  pos is  *)
(* <<x, y, z>>.                                                            *)
(***************************************************************************)
checkHoleCollision(holePosition, pos) ==
    LET dx == pos[1] - holePosition[1]
        dz == pos[3] - holePosition[2]
    IN  \* distance < holeRadius * 0.8
        100 * (dx * dx + dz * dz) < Sq(HoleRadius * 8)

checkRectangularBounds(pos, config) ==
    LET w == config.groundSize.width
        d == config.groundSize.depth
        wallThickness == 3
        wallHeight == 8
        safetyMargin == 20
        wayBeyondWalls ==
            \/ 2 * pos[1] < 0 - w - 2 * (wallThickness + safetyMargin)
            \/ 2 * pos[1] > w + 2 * (wallThickness + safetyMargin)
            \/ 2 * pos[3] < 0 - d - 2 * (wallThickness + safetyMargin)
            \/ 2 * pos[3] > d + 2 * (wallThickness + safetyMargin)
    IN  (wayBeyondWalls /\ pos[2] <= wallHeight) \/ pos[2] < -50

checkCircularBounds(pos, config) ==
    LET radius == config.groundSize.radius
        wallThickness == 3
        wallHeight == 8
        safetyMargin == 20
        wayBeyondWall ==
            Sq(pos[1]) + Sq(pos[3]) > Sq(radius + wallThickness + safetyMargin)
    IN  (wayBeyondWall /\ pos[2] <= wallHeight) \/ pos[2] < -50

checkLShapeBounds(pos, config) ==
    LET w == config.groundSize.width
        d == config.groundSize.depth
        wallThickness == 3
        wallHeight == 8
        safetyMargin == 80
        m == wallThickness + safetyMargin
        inMainSection ==
            /\ 4 * pos[1] >= 0 - w - 4 * m /\ 4 * pos[1] <= w + 4 * m
            /\ 10 * pos[3] >= 0 - 3 * d - 10 * m /\ 10 * pos[3] <= 3 * d + 10 * m
        extW == (w * 6) \div 10
        extD == (d * 4) \div 10
        extX == (w * 3) \div 10
        extZ == 0 - ((d * 3) \div 10)
        inExtSection ==
            /\ 2 * pos[1] >= 2 * extX - extW - 2 * m
            /\ 2 * pos[1] <= 2 * extX + extW + 2 * m
            /\ 2 * pos[3] >= 2 * extZ - extD - 2 * m
            /\ 2 * pos[3] <= 2 * extZ + extD + 2 * m
        wayOutsideBounds == ~inMainSection /\ ~inExtSection
    IN  (wayOutsideBounds /\ pos[2] <= wallHeight) \/ pos[2] < -50

checkDonutBounds(pos, config) ==
    LET outerRadius == config.groundSize.outerRadius
        innerRadius == config.groundSize.innerRadius
        wallThickness == 3
        safetyMargin == 30
        d2 == Sq(pos[1]) + Sq(pos[3])
        outsideOuter == d2 > Sq(outerRadius + wallThickness + safetyMargin)
        insideInner == d2 < Sq(innerRadius - wallThickness - safetyMargin)
        belowGround == pos[2] < -30
    IN  outsideOuter \/ insideInner \/ belowGround

\* Course.checkBounds for the course of hole currentHoleNumber
checkBounds(currentHoleNumber, pos) ==
    LET holeConfig == getHoleConfig(currentHoleNumber)
    IN  CASE holeConfig.groundShape \in {"rectangle", "narrow", "split"} ->
                checkRectangularBounds(pos, holeConfig)
          [] holeConfig.groundShape = "circular" -> checkCircularBounds(pos, holeConfig)
          [] holeConfig.groundShape = "L" -> checkLShapeBounds(pos, holeConfig)
          [] holeConfig.groundShape = "donut" -> checkDonutBounds(pos, holeConfig)
          [] OTHER -> checkRectangularBounds(pos, holeConfig)

(***************************************************************************)
(* ObstacleManager: the roster of a hole.  The anchor tables are those of  *)
(* positionObstacleForHole and positionBlackHole; the anchors of holes 4   *)
(* and 8, computed there with cos and sin, are rounded to the grid.  The   *)
(* Math.random() draws are taken at the lower end of their interval        *)
(* (radius 1.5, movementRange 5, black-hole radius 2.0).                   *)
(***************************************************************************)
obstaclePositions ==
    << << <<-40, 100>>, <<30, 0>>, <<-20, -80>>, <<50, 50>>, <<0, -150>> >>,
       << <<-100, 50>>, <<80, -80>>, <<-50, -50>>, <<150, 20>>, <<-150, 80>> >>,
       << <<-60, 150>>, <<60, 80>>, <<-30, -50>>, <<40, -180>>, <<0, 0>> >>,
       << <<-87, 191>>, <<-65, -200>>, <<183, 104>>, <<-205, 47>>, <<119, -173>> >>,
       << <<-80, 200>>, <<70, 100>>, <<-60, -20>>, <<90, -150>>, <<-40, -250>> >>,
       << <<-180, 80>>, <<150, 120>>, <<-100, -150>>, <<200, -50>>, <<80, 180>> >>,
       << <<-80, 250>>, <<100, 150>>, <<-60, -100>>, <<80, -200>>, <<0, 50>> >>,
       << <<-111, 101>>, <<-150, -116>>, <<108, -203>>, <<257, 84>>, <<-45, 307>> >>,
       << <<0, 0>>, <<150, 150>>, <<50, 150>>, <<150, -150>>, <<-150, -150>> >> >>

blackHolePositions ==
    << <<>>, <<>>, <<>>, <<>>,
       << <<-100, 50>>, <<80, -100>>, <<0, 80>> >>,
       << <<-150, 100>>, <<200, -80>>, <<-80, -150>> >>,
       << <<-120, 50>>, <<120, -50>>, <<0, 180>> >>,
       << <<72, 186>>, <<-227, -36>>, <<165, -201>> >>,
       << <<-180, 150>>, <<150, -120>>, <<-50, -200>> >> >>

\* ObstacleManager.createObstacle (index counts from 0 as in the source)
createObstacle(holeNumber, index) ==
    LET types == <<"oscillate", "circular", "static">>
        spaceObjects == <<"planet", "star", "ufo">>
        hole9Objects == <<"ufo", "planet", "star", "planet", "star">>
        objectType == IF holeNumber = 9 THEN hole9Objects[index + 1]
                      ELSE spaceObjects[(index % 3) + 1]
        central == holeNumber = 3 /\ index = 2 /\ objectType = "ufo"
        movementType == IF objectType = "star" \/ central THEN "static"
                        ELSE types[(index % 3) + 1]
        radius == IF objectType = "ufo" THEN UfoRadius ELSE ObstacleRadius
        xz == IF central THEN <<0, 50>>
              ELSE obstaclePositions[holeNumber][(index % 5) + 1]
        y == IF objectType = "ufo" THEN radius + 10 ELSE radius + 5
    IN  [isBlackHole |-> FALSE, objectType |-> objectType,
         movementType |-> movementType,
         initialPosition |-> <<xz[1], y, xz[2]>>, radius |-> radius,
         movementRange |-> IF objectType = "star" THEN 0
                           ELSE IF holeNumber = 9 THEN 30 ELSE MovementRange]

\* ObstacleManager.createBlackHoles
createBlackHoles(holeNumber) ==
    LET n == Min(holeNumber - 4, 3) + (IF holeNumber = 5 THEN 2 ELSE 0)
    IN  [i \in 1 .. n |->
            LET xz == blackHolePositions[holeNumber][((i - 1) % 3) + 1]
            IN  [isBlackHole |-> TRUE, objectType |-> "blackhole",
                 movementType |-> "static",
                 initialPosition |-> <<xz[1], BlackHoleRadius \div 10, xz[2]>>,
                 radius |-> BlackHoleRadius, movementRange |-> 0]]

createExtraUFOForHole8 ==
    << [isBlackHole |-> FALSE, objectType |-> "ufo", movementType |-> "static",
        initialPosition |-> <<20, UfoRadius + 10, 0>>, radius |-> UfoRadius,
        movementRange |-> 0] >>

createExtraUFOs ==
    [i \in 1 .. 2 |->
        [isBlackHole |-> FALSE, objectType |-> "ufo", movementType |-> "circular",
         initialPosition |-> <<IF i = 1 THEN 250 ELSE -250, UfoRadius + 10, 0>>,
         radius |-> UfoRadius, movementRange |-> 30]]

\* ObstacleManager.createObstacles: generic obstacles first, then the black
\* holes (holes 5-9), then the extra UFOs of holes 8 and 9
createObstacles(holeNumber) ==
    LET obstacleCount == IF holeNumber = 9 THEN 5 ELSE Min(holeNumber, 5)
    IN  [i \in 1 .. obstacleCount |-> createObstacle(holeNumber, i - 1)]
        \o (IF holeNumber >= 5 THEN createBlackHoles(holeNumber) ELSE <<>>)
        \o (IF holeNumber = 8 THEN createExtraUFOForHole8 ELSE <<>>)
        \o (IF holeNumber = 9 THEN createExtraUFOs ELSE <<>>)

\* sin and cos of (time * movementSpeed + phase) at the quarter periods
SinAt(k) == <<0, 1, 0, -1>>[k + 1]
CosAt(k) == <<1, 0, -1, 0>>[k + 1]

\* ObstacleManager.update: the position of an obstacle in a frame whose
\* phase sample is k (the UFO hover, +-0.3, uses the same sample)
obstaclePosition(o, k) ==
    LET p == o.initialPosition
        x == CASE o.movementType = "oscillate" -> p[1] + SinAt(k) * o.movementRange
               [] o.movementType = "circular" -> p[1] + CosAt(k) * o.movementRange
               [] OTHER -> p[1]
        z == IF o.movementType = "circular" THEN p[3] + SinAt(k) * o.movementRange
             ELSE p[3]
        y == IF o.objectType = "ufo" THEN p[2] + SinAt(k) * 3 ELSE p[2]
    IN  <<x, y, z>>

(***************************************************************************)
(* Ball.                                                                   *)
(*   position  <<x, y, z>>                                                 *)
(*   velocity  "zero" (0,0,0), "vertical" (only y not zero) or "moving"    *)
(*   isMoving                                                              *)
(***************************************************************************)
\* new Ball(): at the origin, at rest
newBall == [position |-> <<0, 0, 0>>, velocity |-> "zero", isMoving |-> FALSE]

\* Ball.setPosition that leaves the velocity and isMoving alone
setPositionKeepVelocity(ball, position) ==
    [ball EXCEPT !.position = <<position[1], BallRadius, position[2]>>]

\* Ball.setPosition
setPosition(ball, position) ==
    [position |-> <<position[1], BallRadius, position[2]>>,
     velocity |-> "zero", isMoving |-> FALSE]

\* Ball.canShoot
canShoot(ball) == ~ball.isMoving

\* Ball.shoot(direction, power): direction is a horizontal unit vector
ballShoot(ball, power) ==
    [ball EXCEPT !.velocity = IF power > 0 THEN "moving" ELSE "zero",
                 !.isMoving = TRUE]

\* the sample positions of a ball in flight on hole h: the start, the cup,
\* the centre of the course, the first black hole, a point far outside, on a
\* ring a point just inside its inner edge, and on hole 6 a point between
\* its planet at (20, -5) and its black hole at (20, -8)
BallSites(h) ==
    {getHoleConfig(h).start, getHoleConfig(h).hole, <<0, 0>>, <<1000, 0>>}
    \cup (IF h >= 5 THEN {blackHolePositions[h][1]} ELSE {})
    \cup (IF getHoleConfig(h).groundShape = "donut" THEN {<<100, 0>>} ELSE {})
    \cup (IF h = 6 THEN {<<200, -62>>} ELSE {})

BallHeights == {BallRadius}

\* Ball.update(delta), delta > 0: the set of balls it can produce
ballUpdate(ball, h) ==
    IF ~ball.isMoving /\ ball.velocity = "zero" THEN {ball}
    ELSE LET xzs == IF ball.velocity = "moving" THEN BallSites(h)
                    ELSE {<<ball.position[1], ball.position[3]>>}
             going == IF ball.velocity = "moving" THEN "moving" ELSE "vertical"
         IN  \* still in motion: y >= radius after the ground clamp
             { [position |-> <<xz[1], y, xz[2]>>, velocity |-> going,
                isMoving |-> ball.isMoving] : xz \in xzs, y \in BallHeights }
             \cup
             \* |velocity| < minSpeed on the ground: stopped
             { [position |-> <<xz[1], BallRadius, xz[2]>>, velocity |-> "zero",
                isMoving |-> FALSE] : xz \in xzs }

\* Ball.checkCollision(object) for a spherical object at objPos
checkCollision(ball, objPos, objRadius) ==
    LET d2 == Sq(ball.position[1] - objPos[1]) + Sq(ball.position[2] - objPos[2])
              + Sq(ball.position[3] - objPos[3])
    IN  d2 < Sq(BallRadius + objRadius)

\* Ball.handleCollision(obstacle): reflect and damp the velocity, push the
\* ball out along the normal (a zero-length normal stays the zero vector)
handleCollision(ball, objPos, objRadius) ==
    LET dx == ball.position[1] - objPos[1]
        dy == ball.position[2] - objPos[2]
        dz == ball.position[3] - objPos[3]
        dist == ISqrt(dx * dx + dy * dy + dz * dz)
        pushDistance == BallRadius + objRadius - dist
        pushed == IF pushDistance > 0 /\ dist > 0
                  THEN <<ball.position[1] + DivT(dx * pushDistance, dist),
                         ball.position[2] + DivT(dy * pushDistance, dist),
                         ball.position[3] + DivT(dz * pushDistance, dist)>>
                  ELSE ball.position
        reflected == IF ball.velocity = "vertical" /\ dy # 0 /\ (dx # 0 \/ dz # 0)
                     THEN "moving" ELSE ball.velocity
    IN  [ball EXCEPT !.position = pushed, !.velocity = reflected]

(***************************************************************************)
(* State.                                                                  *)
(***************************************************************************)
VARIABLES
    mode,             \* Game.mode
    currentHole,      \* Game.currentHole
    strokeCount,      \* Game.strokeCount
    completedHoles,   \* Game.completedHoles (a Set)
    scorecard,        \* Game.scorecard: hole -> [strokes, par, score]
    course,           \* Game.course: [currentHoleNumber, par, startPosition, holePosition]
    ball,             \* Game.ball (also InputHandler.ball, see rebuildScene)
    obstacleManager,  \* Game.obstacleManager: [holeNumber, time]; time is 0
                      \* until the first update and 1 (positive) afterwards
    droneManager,     \* Game.droneManager: never assigned by this Game
    inputHandler,     \* InputHandler: [isCharging, power]; power is 0 or 1
                      \* (any positive charge)
    timers,           \* pending black-hole setTimeout callbacks: the
                      \* milliseconds left of each, in arming order
    restartMessage,   \* style.display of the element restart-message
    lastOp,           \* of the handler that ran last: the calls it made, the
                      \* scorecard entries it wrote and the holes it marked
                      \* completed
    args,             \* arguments of the pure-function checks
    result            \* their result

vars == <<mode, currentHole, strokeCount, completedHoles, scorecard, course,
          ball, obstacleManager, droneManager, inputHandler, timers,
          restartMessage, lastOp, args, result>>

gameVars == <<mode, currentHole, strokeCount, completedHoles, scorecard, course,
              ball, obstacleManager, droneManager, inputHandler, timers,
              restartMessage, lastOp>>

\* Course.createHole
createHole(holeNumber) ==
    LET holeConfig == getHoleConfig(holeNumber)
    IN  [currentHoleNumber |-> holeNumber, par |-> holeConfig.par,
         startPosition |-> holeConfig.start, holePosition |-> holeConfig.hole]

\* new ObstacleManager(...).createObstacles(holeNumber)
newObstacleManager(holeNumber) == [holeNumber |-> holeNumber, time |-> 0]

\* the roster createObstacles builds for each hole
obstacles == [h \in 1 .. 9 |-> createObstacles(h)]

\* ObstacleManager.getObstacles
getObstacles(om) == obstacles[om.holeNumber]

\* Course.getWalls: createBoundaryWalls returns before building any wall
getWalls == <<>>

\* Game.getGolfScoreTerminology without the case of a single stroke
getGolfScoreTerminologyNoAce(strokes, par) ==
    LET difference == strokes - par
    IN  IF difference <= -3 THEN "DOUBLE EAGLE!"
        ELSE IF difference = -2 THEN "EAGLE!"
        ELSE IF difference = -1 THEN "Birdie!"
        ELSE IF difference = 0 THEN "Par"
        ELSE IF difference = 1 THEN "Bogey"
        ELSE IF difference = 2 THEN "Double Bogey"
        ELSE IF difference = 3 THEN "Triple Bogey"
        ELSE ToString(difference) \o " Over Par"

(***************************************************************************)
(* Game.getGolfScoreTerminology (the decorative emoji of the strings are   *)
(* left out).                                                              *)
(***************************************************************************)
getGolfScoreTerminology(strokes, par) ==
    LET difference == strokes - par
    IN  IF strokes = 1 THEN "HOLE-IN-ONE! (Ace)"
        ELSE IF difference <= -3 THEN "DOUBLE EAGLE!"
        ELSE IF difference = -2 THEN "EAGLE!"
        ELSE IF difference = -1 THEN "Birdie!"
        ELSE IF difference = 0 THEN "Par"
        ELSE IF difference = 1 THEN "Bogey"
        ELSE IF difference = 2 THEN "Double Bogey"
        ELSE IF difference = 3 THEN "Triple Bogey"
        ELSE IF difference >= 4 THEN ToString(difference) \o " Over Par"
        ELSE "Par"

(***************************************************************************)
(* The handlers, as functions of the game.  A game g is the record of the  *)
(* state variables below (see Game) with four more fields: trace, the      *)
(* calls made so far by the running handler; written, the scorecard        *)
(* entries it has written; marked, the holes it has added to               *)
(* completedHoles; and threw, set when it ended on an uncaught exception.  *)
(***************************************************************************)
Call(g, name) == [g EXCEPT !.trace = Append(@, name)]

\* Game.rebuildScene that keeps the old ball
rebuildSceneKeepBall(g) ==
    [Call(g, "rebuildScene") EXCEPT
        !.course = createHole(g.currentHole),
        !.obstacleManager = newObstacleManager(g.currentHole)]

\* Game.rebuildScene that keeps the old course
rebuildSceneKeepCourse(g) ==
    [Call(g, "rebuildScene") EXCEPT
        !.ball = setPosition(newBall, g.course.startPosition),
        !.obstacleManager = newObstacleManager(g.currentHole)]

\* Game.rebuildScene
rebuildScene(g) ==
    LET c == createHole(g.currentHole)
    IN  [Call(g, "rebuildScene") EXCEPT
            !.course = c,
            !.ball = setPosition(newBall, c.startPosition),
            !.obstacleManager = newObstacleManager(g.currentHole)]

\* Game.setMode without the early return on the current mode
setModeAlways(g, m) == rebuildScene([Call(g, "setMode") EXCEPT !.mode = m])

\* Game.setMode
setMode(g, m) ==
    IF g.mode = m THEN g ELSE rebuildScene([Call(g, "setMode") EXCEPT !.mode = m])

\* Game.switchToHole that keeps the stroke count
switchToHoleKeepStrokes(g, holeNumber) ==
    IF holeNumber >= 1 /\ holeNumber <= 9
    THEN rebuildScene([Call(g, "switchToHole") EXCEPT !.currentHole = holeNumber])
    ELSE g

\* Game.switchToHole
switchToHole(g, holeNumber) ==
    IF holeNumber >= 1 /\ holeNumber <= 9
    THEN rebuildScene([Call(g, "switchToHole") EXCEPT
                          !.currentHole = holeNumber, !.strokeCount = 0])
    ELSE g

\* Game.onStroke that loses the stroke
onStrokeUncounted(g) == Call(g, "onStroke")

\* Game.onStroke
onStroke(g) == [Call(g, "onStroke") EXCEPT !.strokeCount = @ + 1]

\* InputHandler.shoot with a game that is never notified of the stroke
shootNoNotify(g) ==
    IF ~canShoot(g.ball) THEN g
    ELSE [Call(g, "Ball.shoot") EXCEPT
             !.ball = ballShoot(g.ball, g.inputHandler.power),
             !.inputHandler = [isCharging |-> FALSE, power |-> 0]]

\* InputHandler.shoot
shoot(g) ==
    IF ~canShoot(g.ball) THEN g
    ELSE onStroke([Call(g, "Ball.shoot") EXCEPT
                      !.ball = ballShoot(g.ball, g.inputHandler.power),
                      !.inputHandler = [isCharging |-> FALSE, power |-> 0]])

\* InputHandler.onKeyDown, case 'Space'
onKeyDown(g) ==
    IF ~g.inputHandler.isCharging /\ canShoot(g.ball)
    THEN [g EXCEPT !.inputHandler = [isCharging |-> TRUE, power |-> 0]]
    ELSE g

\* InputHandler.onKeyUp, case 'Space'
onKeyUp(g) ==
    IF g.inputHandler.isCharging THEN shoot(Call(g, "onKeyUp")) ELSE Call(g, "onKeyUp")

\* Game.restartLevel that also starts the hole's stroke count again
restartLevelResetStrokes(g) ==
    LET g1 == [Call(g, "restartLevel") EXCEPT
                  !.ball = setPosition(g.ball, g.course.startPosition),
                  !.obstacleManager = newObstacleManager(g.currentHole),
                  !.strokeCount = 0]
    IN  IF g1.droneManager = "undefined"
        THEN [Call(g1, "TypeError") EXCEPT !.threw = TRUE]
        ELSE [g1 EXCEPT !.droneManager = [holeNumber |-> g.currentHole],
                        !.restartMessage = "block"]

\* Game.restartLevel: this Game has no droneManager, so the call of
\* droneManager.dispose() raises a TypeError
restartLevel(g) ==
    LET g1 == [Call(g, "restartLevel") EXCEPT
                  !.ball = setPosition(g.ball, g.course.startPosition),
                  !.obstacleManager = newObstacleManager(g.currentHole)]
    IN  IF g1.droneManager = "undefined"
        THEN [Call(g1, "TypeError") EXCEPT !.threw = TRUE]
        ELSE [g1 EXCEPT !.droneManager = [holeNumber |-> g.currentHole],
                        !.restartMessage = "block"]

\* Game.handleDonutCenterCollision
handleDonutCenterCollision(g) ==
    [Call(g, "handleDonutCenterCollision") EXCEPT
        !.ball = setPosition(g.ball, g.course.startPosition),
        !.obstacleManager = newObstacleManager(g.currentHole),
        !.restartMessage = "block"]

\* Game.handleBlackHoleCollision that moves the ball to the start at once
handleBlackHoleCollisionTeleport(g) ==
    [Call(g, "handleBlackHoleCollision") EXCEPT
        !.ball = setPosition(g.ball, g.course.startPosition),
        !.restartMessage = "block",
        !.timers = Append(@, BlackHoleDelay)]

\* Game.handleBlackHoleCollision: stops the ball, shows the message and
\* arms the deferred reset
handleBlackHoleCollision(g) ==
    [Call(g, "handleBlackHoleCollision") EXCEPT
        !.ball = [g.ball EXCEPT !.velocity = "zero", !.isMoving = FALSE],
        !.restartMessage = "block",
        !.timers = Append(@, BlackHoleDelay)]

\* the callback armed by handleBlackHoleCollision
blackHoleTimeout(g) ==
    [Call(g, "blackHoleTimeout") EXCEPT
        !.ball = setPosition(g.ball, g.course.startPosition)]

\* a clickHandler that also clears the pending timeouts
clickHandlerCancel(g) ==
    [Call(g, "clickHandler") EXCEPT !.restartMessage = "none", !.timers = << >>]

\* clickHandler of Game.makeMessageClickable
clickHandler(g) == [Call(g, "clickHandler") EXCEPT !.restartMessage = "none"]

\* Game.onHoleComplete that resets the stroke count before it records the hole
onHoleCompleteLate(g) ==
    LET completedHole == g.currentHole
        par == g.course.par
        entry == [strokes |-> 0, par |-> par,
                  score |-> getGolfScoreTerminology(0, par)]
        g1 == [Call(g, "onHoleComplete") EXCEPT
                  !.strokeCount = 0,
                  !.completedHoles = @ \cup {completedHole},
                  !.scorecard = [h \in DOMAIN @ \cup {completedHole} |->
                                    IF h = completedHole THEN entry ELSE @[h]],
                  !.written = @ \cup {[hole |-> completedHole, entry |-> entry]},
                  !.marked = @ \cup {completedHole},
                  !.currentHole = @ + 1]
        g2 == IF g1.currentHole > 9
              THEN [g1 EXCEPT !.currentHole = 1,
                              !.completedHoles = {}, !.scorecard = << >>]
              ELSE g1
    IN  rebuildScene(g2)

\* Game.onHoleComplete that starts the new round without clearing the card
onHoleCompleteKeepCard(g) ==
    LET completedHole == g.currentHole
        strokesUsed == g.strokeCount
        par == g.course.par
        scoreResult == getGolfScoreTerminology(strokesUsed, par)
        entry == [strokes |-> strokesUsed, par |-> par, score |-> scoreResult]
        g1 == [Call(g, "onHoleComplete") EXCEPT
                  !.completedHoles = @ \cup {completedHole},
                  !.scorecard = [h \in DOMAIN @ \cup {completedHole} |->
                                    IF h = completedHole THEN entry ELSE @[h]],
                  !.written = @ \cup {[hole |-> completedHole, entry |-> entry]},
                  !.marked = @ \cup {completedHole},
                  !.currentHole = IF @ + 1 > 9 THEN 1 ELSE @ + 1,
                  !.strokeCount = 0]
    IN  rebuildScene(g1)

\* Game.onHoleComplete without the return to hole 1 after hole 9
onHoleCompleteNoWrap(g) ==
    LET completedHole == g.currentHole
        strokesUsed == g.strokeCount
        par == g.course.par
        scoreResult == getGolfScoreTerminology(strokesUsed, par)
        entry == [strokes |-> strokesUsed, par |-> par, score |-> scoreResult]
        g1 == [Call(g, "onHoleComplete") EXCEPT
                  !.completedHoles = @ \cup {completedHole},
                  !.scorecard = [h \in DOMAIN @ \cup {completedHole} |->
                                    IF h = completedHole THEN entry ELSE @[h]],
                  !.written = @ \cup {[hole |-> completedHole, entry |-> entry]},
                  !.marked = @ \cup {completedHole},
                  !.currentHole = @ + 1,
                  !.strokeCount = 0]
    IN  rebuildScene(g1)

\* Game.onHoleComplete that writes the scorecard entry without marking the
\* hole completed
onHoleCompleteNoMark(g) ==
    LET completedHole == g.currentHole
        strokesUsed == g.strokeCount
        par == g.course.par
        scoreResult == getGolfScoreTerminology(strokesUsed, par)
        entry == [strokes |-> strokesUsed, par |-> par, score |-> scoreResult]
        g1 == [Call(g, "onHoleComplete") EXCEPT
                  !.scorecard = [h \in DOMAIN @ \cup {completedHole} |->
                                    IF h = completedHole THEN entry ELSE @[h]],
                  !.written = @ \cup {[hole |-> completedHole, entry |-> entry]},
                  !.currentHole = @ + 1]
        g2 == IF g1.currentHole > 9
              THEN [g1 EXCEPT !.currentHole = 1, !.strokeCount = 0,
                              !.completedHoles = {}, !.scorecard = << >>]
              ELSE [g1 EXCEPT !.strokeCount = 0]
    IN  rebuildScene(g2)

\* Game.onHoleComplete
onHoleComplete(g) ==
    LET completedHole == g.currentHole
        strokesUsed == g.strokeCount
        par == g.course.par
        scoreResult == getGolfScoreTerminology(strokesUsed, par)
        entry == [strokes |-> strokesUsed, par |-> par, score |-> scoreResult]
        g1 == [Call(g, "onHoleComplete") EXCEPT
                  !.completedHoles = @ \cup {completedHole},
                  !.scorecard = [h \in DOMAIN @ \cup {completedHole} |->
                                    IF h = completedHole THEN entry ELSE @[h]],
                  !.written = @ \cup {[hole |-> completedHole, entry |-> entry]},
                  !.marked = @ \cup {completedHole},
                  !.currentHole = @ + 1]
        g2 == IF g1.currentHole > 9
              THEN [g1 EXCEPT !.currentHole = 1, !.strokeCount = 0,
                              !.completedHoles = {}, !.scorecard = << >>]
              ELSE [g1 EXCEPT !.strokeCount = 0]
    IN  rebuildScene(g2)

\* the loop of Game.checkCollisions over the obstacles, from index i, in a
\* frame whose phase sample is k
RECURSIVE obstacleLoop(_, _, _)
obstacleLoop(g, i, k) ==
    LET roster == getObstacles(g.obstacleManager)
    IN  IF i > Len(roster) THEN g
        ELSE LET o == roster[i]
                 p == obstaclePosition(o, k)
             IN  IF ~checkCollision(g.ball, p, o.radius)
                 THEN obstacleLoop(g, i + 1, k)
                 ELSE IF o.isBlackHole
                 THEN handleBlackHoleCollision(g)
                 ELSE obstacleLoop(
                          [Call(g, "handleCollision") EXCEPT
                              !.ball = handleCollision(g.ball, p, o.radius)],
                          i + 1, k)

\* Game.checkCollisions
checkCollisions(g, k) ==
    IF /\ g.currentHole = 6
       /\ Sq(g.ball.position[1]) + Sq(g.ball.position[3]) < Sq(DonutInnerRadius)
    THEN handleDonutCenterCollision(g)
    ELSE LET g1 == obstacleLoop(g, 1, k)
         IN  IF Len(g1.timers) > Len(g.timers) THEN g1  \* return after absorption
             \* the wall loop runs over getWalls, which is empty
             ELSE IF checkBounds(g1.course.currentHoleNumber, g1.ball.position)
             THEN restartLevel(Call(g1, "outOfBounds"))
             ELSE g1

\* Game.update(delta) with delta > 0; b is the ball left by Ball.update
update(g, b, k) ==
    LET g1 == [g EXCEPT
                  !.ball = b,
                  !.obstacleManager.time = 1,
                  !.inputHandler.power = IF g.inputHandler.isCharging THEN 1 ELSE @]
        g2 == checkCollisions(g1, k)
    IN  IF g2.threw THEN g2
        ELSE IF checkHoleCollision(g2.course.holePosition, g2.ball.position)
        THEN onHoleComplete(g2)
        ELSE g2

(***************************************************************************)
(* The state machine.                                                      *)
(***************************************************************************)
Game ==
    [mode |-> mode, currentHole |-> currentHole, strokeCount |-> strokeCount,
     completedHoles |-> completedHoles, scorecard |-> scorecard,
     course |-> course, ball |-> ball, obstacleManager |-> obstacleManager,
     droneManager |-> droneManager, inputHandler |-> inputHandler,
     timers |-> timers, restartMessage |-> restartMessage,
     trace |-> << >>, written |-> {}, marked |-> {}, threw |-> FALSE]

\* the state after a handler has turned the game into g
Commit(g) ==
    /\ mode' = g.mode
    /\ currentHole' = g.currentHole
    /\ strokeCount' = g.strokeCount
    /\ completedHoles' = g.completedHoles
    /\ scorecard' = g.scorecard
    /\ course' = g.course
    /\ ball' = g.ball
    /\ obstacleManager' = g.obstacleManager
    /\ droneManager' = g.droneManager
    /\ inputHandler' = g.inputHandler
    /\ timers' = g.timers
    /\ restartMessage' = g.restartMessage
    /\ lastOp' = [trace |-> g.trace, written |-> g.written, marked |-> g.marked]
    /\ UNCHANGED <<args, result>>

\* the clock advances by dt: every pending timer comes dt closer
elapse(ts, dt) ==
    IF Len(ts) = 0 THEN << >> ELSE [i \in 1 .. Len(ts) |-> Max(ts[i] - dt, 0)]

\* Game constructor, init() (setupComponents) and start()
Init ==
    /\ mode = "full"
    /\ currentHole = 1
    /\ strokeCount = 0
    /\ completedHoles = {}
    /\ scorecard = << >>
    /\ course = createHole(1)
    /\ ball = setPosition(newBall, createHole(1).startPosition)
    /\ obstacleManager = newObstacleManager(1)
    /\ droneManager = "undefined"
    /\ inputHandler = [isCharging |-> FALSE, power |-> 0]
    /\ timers = << >>
    /\ restartMessage = "none"
    /\ lastOp = [trace |-> << >>, written |-> {}, marked |-> {}]
    /\ args = << >>
    /\ result = ""

\* A setTimeout callback runs as soon as it is due: the clock does not move
\* on, and no later frame runs, while a due callback is waiting.
noneDue == IF Len(timers) = 0 THEN TRUE ELSE Head(timers) > 0

\* one animation frame, dt after the previous one: Game.gameLoop -> update
Frame ==
    noneDue /\ \E dt \in FrameDeltas, k \in PhaseSamples, b \in ballUpdate(ball, currentHole) :
        \E g \in {update([Game EXCEPT !.timers = elapse(@, dt)], b, k)} :
            /\ Len(g.timers) <= MaxTimers
            /\ Cardinality(g.completedHoles) <= MaxCard
            /\ Commit(g)

\* time passes without a frame (requestAnimationFrame is paused)
Tick ==
    /\ noneDue
    /\ \E i \in 1 .. Len(timers) : timers[i] > 0
    /\ \E dt \in FrameDeltas :
           \E g \in {[Game EXCEPT !.timers = elapse(@, dt)]} : Commit(g)

\* the oldest pending black-hole timer is due and its callback runs
FireTimer ==
    /\ Len(timers) > 0
    /\ Head(timers) = 0
    /\ \E g \in {blackHoleTimeout([Game EXCEPT !.timers = Tail(@)])} :
           Commit(g)

\* keydown of the space bar
KeyDown == \E g \in {onKeyDown(Game)} : Commit(g)

\* keyup of the space bar
KeyUp ==
    \E g \in {onKeyUp(Game)} :
        /\ g.strokeCount <= MaxStrokes
        /\ Commit(g)

\* a click on the restart-message element while it is shown
ClickMessage ==
    /\ restartMessage = "block"
    /\ \E g \in {clickHandler(Game)} : Commit(g)

\* the mode buttons of main.js
SetMode == \E m \in Modes : \E g \in {setMode(Game, m)} : Commit(g)

\* the level menu of main.js
SwitchToHole ==
    \E n \in HoleInputs : \E g \in {switchToHole(Game, n)} : Commit(g)

Next ==
    \/ Frame
    \/ Tick
    \/ FireTimer
    \/ KeyDown
    \/ KeyUp
    \/ ClickMessage
    \/ SetMode
    \/ SwitchToHole

Spec == Init /\ [][Next]_vars

\* the level menu used on the ring-shaped holes
SwitchToDonut ==
    \E n \in DonutInputs : \E g \in {switchToHole(Game, n)} : Commit(g)

NextDonut ==
    \/ Frame
    \/ Tick
    \/ FireTimer
    \/ KeyDown
    \/ KeyUp
    \/ ClickMessage
    \/ SetMode
    \/ SwitchToDonut

\* the same game played from the level-menu entries of DonutInputs
SpecDonut == Init /\ [][NextDonut]_vars

\* The browser runs a due timer callback and its clock never stops: time
\* keeps passing while a timer is pending, and a due callback is run.
FairSpec == Spec /\ WF_vars(Tick) /\ WF_vars(FireTimer)

(***************************************************************************)
(* getGolfScoreTerminology on its own: the arguments are drawn from        *)
(* 1 .. MaxLabelStrokes and 1 .. MaxLabelPar and the function is applied.  *)
(***************************************************************************)
InitLabel ==
    /\ args \in (1 .. MaxLabelStrokes) \X (1 .. MaxLabelPar)
    /\ result = ""
    /\ mode = "full"
    /\ currentHole = 1
    /\ strokeCount = 0
    /\ completedHoles = {}
    /\ scorecard = << >>
    /\ course = createHole(1)
    /\ ball = setPosition(newBall, createHole(1).startPosition)
    /\ obstacleManager = newObstacleManager(1)
    /\ droneManager = "undefined"
    /\ inputHandler = [isCharging |-> FALSE, power |-> 0]
    /\ timers = << >>
    /\ restartMessage = "none"
    /\ lastOp = [trace |-> << >>, written |-> {}, marked |-> {}]

CallLabel ==
    /\ result = ""
    /\ result' = getGolfScoreTerminology(args[1], args[2])
    /\ UNCHANGED <<args, gameVars>>

NextLabel == CallLabel

SpecLabel == InitLabel /\ [][NextLabel]_vars

(***************************************************************************)
(* Ball in numbers.  Lengths are in hundredths of a unit, velocities in    *)
(* hundredths of a unit per second, delta in milliseconds and power in     *)
(* percent; a product with a fraction is truncated as DivT does.  A vector *)
(* is <<x, y, z>>; an obstacle is [position, radius].                      *)
(***************************************************************************)
friction == 98
gravity == 980
bounciness == 60
minSpeed == 50
Ball_radius == BallRadius * 10

LengthSq(v) == Sq(v[1]) + Sq(v[2]) + Sq(v[3])

Ball_new == [position |-> <<0, 0, 0>>, velocity |-> <<0, 0, 0>>, isMoving |-> FALSE]

Ball_setPosition(b, position) ==
    [position |-> <<position[1], Ball_radius, position[3]>>,
     velocity |-> <<0, 0, 0>>, isMoving |-> FALSE]

Ball_canShoot(b) == ~b.isMoving

\* Ball.shoot(direction, power): no test of canShoot
Ball_shoot(b, direction, power) ==
    LET force == power * 50
    IN  [b EXCEPT !.velocity = <<direction[1] * force, power * 5,
                                 direction[3] * force>>,
                  !.isMoving = TRUE]

\* InputHandler.shoot: the guarded caller of Ball.shoot
InputHandler_shoot(b, direction, power) ==
    IF ~Ball_canShoot(b) THEN b ELSE Ball_shoot(b, direction, power)

\* Ball.update(delta)
Ball_update(b, delta) ==
    IF ~b.isMoving /\ LengthSq(b.velocity) < Sq(minSpeed) THEN b
    ELSE LET vy1 == b.velocity[2] - DivT(gravity * delta, 1000)
             x1 == b.position[1] + DivT(b.velocity[1] * delta, 1000)
             y1 == b.position[2] + DivT(vy1 * delta, 1000)
             z1 == b.position[3] + DivT(b.velocity[3] * delta, 1000)
             ground == y1 < Ball_radius
             y2 == IF ground THEN Ball_radius ELSE y1
             vy2 == IF ground THEN DivT(vy1 * (0 - bounciness), 100) ELSE vy1
             vx2 == IF ground THEN DivT(b.velocity[1] * friction, 100)
                    ELSE b.velocity[1]
             vz2 == IF ground THEN DivT(b.velocity[3] * friction, 100)
                    ELSE b.velocity[3]
             vx3 == DivT(vx2 * 995, 1000)
             vz3 == DivT(vz2 * 995, 1000)
             stopped == /\ LengthSq(<<vx3, vy2, vz3>>) < Sq(minSpeed)
                        /\ y2 <= Ball_radius + 1
         IN  IF stopped
             THEN [position |-> <<x1, y2, z1>>, velocity |-> <<0, 0, 0>>,
                   isMoving |-> FALSE]
             ELSE [position |-> <<x1, y2, z1>>, velocity |-> <<vx3, vy2, vz3>>,
                   isMoving |-> b.isMoving]

\* Ball.checkCollision(object) for a spherical object
Ball_checkCollision(b, o) ==
    LET d == [i \in 1 .. 3 |-> b.position[i] - o.position[i]]
    IN  LengthSq(d) < Sq(Ball_radius + o.radius)

\* Ball.handleCollision(obstacle).  normal is in thousandths; Vector3's
\* normalize() leaves a vector of length 0 as it is.
Ball_handleCollision(b, o) ==
    LET d == [i \in 1 .. 3 |-> b.position[i] - o.position[i]]
        dist == ISqrt(LengthSq(d))
        normal == IF dist = 0 THEN <<0, 0, 0>>
                  ELSE [i \in 1 .. 3 |-> DivT(d[i] * 1000, dist)]
        dot == DivT(b.velocity[1] * normal[1] + b.velocity[2] * normal[2]
                    + b.velocity[3] * normal[3], 1000)
        reflected == [i \in 1 .. 3 |->
                         DivT((b.velocity[i] - DivT(2 * dot * normal[i], 1000)) * 8, 10)]
        pushDistance == Ball_radius + o.radius - dist
        pushed == IF pushDistance > 0
                  THEN [i \in 1 .. 3 |->
                           b.position[i] + DivT(normal[i] * pushDistance, 1000)]
                  ELSE b.position
    IN  [b EXCEPT !.position = pushed, !.velocity = reflected]

(***************************************************************************)
(* The Ball on its own: a ball at rest on the ground receives method calls *)
(* in any order.  result is [ball, op, calls]: the ball, the method that   *)
(* ran last and the number of calls so far.                                *)
(***************************************************************************)
\* the number of method calls in a run
MaxCalls == 3

BallDeltas == {0, 16, 250}
BallPowers == {50, 100}
BallDirections == {<<1, 0, 0>>, <<0, 0, -1>>}

\* a UFO at the low point of its hover over the resting ball, a planet
\* beside it, and an obstacle whose centre is the ball's own centre
BallObstacles ==
    { [position |-> <<0, (UfoRadius + 10) * 10 - 30, 0>>, radius |-> UfoRadius * 10],
      [position |-> <<100, (ObstacleRadius + 5) * 10, 0>>, radius |-> ObstacleRadius * 10],
      [position |-> <<0, Ball_radius, 0>>, radius |-> ObstacleRadius * 10] }

InitBall ==
    /\ args = << >>
    /\ result = [ball |-> Ball_setPosition(Ball_new, <<0, 0, 0>>), op |-> "new",
                 calls |-> 0]
    /\ mode = "full"
    /\ currentHole = 1
    /\ strokeCount = 0
    /\ completedHoles = {}
    /\ scorecard = << >>
    /\ course = createHole(1)
    /\ ball = setPosition(newBall, createHole(1).startPosition)
    /\ obstacleManager = newObstacleManager(1)
    /\ droneManager = "undefined"
    /\ inputHandler = [isCharging |-> FALSE, power |-> 0]
    /\ timers = << >>
    /\ restartMessage = "none"
    /\ lastOp = [trace |-> << >>, written |-> {}, marked |-> {}]

\* the state after a call of the Ball method op has left the ball b
BallCommit(b, op) ==
    /\ result' = [ball |-> b, op |-> op, calls |-> result.calls + 1]
    /\ UNCHANGED <<args, gameVars>>

CallBallShoot ==
    /\ result.calls < MaxCalls
    /\ \E d \in BallDirections, p \in BallPowers :
           BallCommit(Ball_shoot(result.ball, d, p), "Ball.shoot")

CallInputShoot ==
    /\ result.calls < MaxCalls
    /\ \E d \in BallDirections, p \in BallPowers :
           BallCommit(InputHandler_shoot(result.ball, d, p), "InputHandler.shoot")

CallBallUpdate ==
    /\ result.calls < MaxCalls
    /\ \E delta \in BallDeltas :
           BallCommit(Ball_update(result.ball, delta), "Ball.update")

\* as in Game.checkCollisions: handleCollision after checkCollision
CallHandleCollision ==
    /\ result.calls < MaxCalls
    /\ \E o \in BallObstacles :
           /\ Ball_checkCollision(result.ball, o)
           /\ BallCommit(Ball_handleCollision(result.ball, o), "Ball.handleCollision")

NextBall ==
    \/ CallBallShoot
    \/ CallInputShoot
    \/ CallBallUpdate
    \/ CallHandleCollision

SpecBall == InitBall /\ [][NextBall]_vars

(***************************************************************************)
(* One shot on a course without obstacles: the ball is shot once and the   *)
(* game loop calls Ball.update with the same delta in every frame.         *)
(* args is <<delta>>; result is [ball, op].                                *)
(***************************************************************************)
\* a frame of a 60 Hz display and a slow frame
FlightDeltas == {16, 250}
FlightPowers == {1, 50, 100}

InitFlight ==
    /\ args \in {<<delta>> : delta \in FlightDeltas}
    /\ result = [ball |-> Ball_setPosition(Ball_new, <<0, 0, 0>>), op |-> "new"]
    /\ mode = "full"
    /\ currentHole = 1
    /\ strokeCount = 0
    /\ completedHoles = {}
    /\ scorecard = << >>
    /\ course = createHole(1)
    /\ ball = setPosition(newBall, createHole(1).startPosition)
    /\ obstacleManager = newObstacleManager(1)
    /\ droneManager = "undefined"
    /\ inputHandler = [isCharging |-> FALSE, power |-> 0]
    /\ timers = << >>
    /\ restartMessage = "none"
    /\ lastOp = [trace |-> << >>, written |-> {}, marked |-> {}]

\* the one shot, through InputHandler.shoot
FlightShoot ==
    /\ result.op = "new"
    /\ \E d \in BallDirections, p \in FlightPowers :
           result' = [ball |-> InputHandler_shoot(result.ball, d, p),
                      op |-> "InputHandler.shoot"]
    /\ UNCHANGED <<args, gameVars>>

\* a frame: Game.update calls Ball.update(delta)
FlightUpdate ==
    /\ result.op # "new"
    /\ result' = [ball |-> Ball_update(result.ball, args[1]), op |-> "Ball.update"]
    /\ UNCHANGED <<args, gameVars>>

NextFlight ==
    \/ FlightShoot
    \/ FlightUpdate

\* requestAnimationFrame keeps the frames coming
SpecFlight == InitFlight /\ [][NextFlight]_vars /\ WF_vars(FlightUpdate)

(***************************************************************************)
(* The configuration lookups on their own: Course.createHole and           *)
(* ObstacleManager.positionObstacleForHole are called once with a hole     *)
(* number and an obstacle index drawn from args = <<holeNumber, index>>.   *)
(* result is [op] before the call and the outcome of the call after it.    *)
(***************************************************************************)
\* hole numbers from -MaxHoleInput to MaxHoleInput are looked up
MaxHoleInput == 12

\* Course.createHole(holeNumber): the configuration it reads, or the
\* TypeError of reading .par of an undefined configuration
Course_createHole(holeNumber) ==
    IF Min(holeNumber - 1, Len(configs) - 1) < 0
    THEN [op |-> "createHole", threw |-> TRUE, config |-> << >>]
    ELSE [op |-> "createHole", threw |-> FALSE,
          config |-> <<getHoleConfig(holeNumber)>>]

\* ObstacleManager.positionObstacleForHole: the switch on holeNumber picks
\* the table of that hole, or the default (angular) layout, layout 0
positionObstacleForHole(holeNumber, index) ==
    IF holeNumber \in 1 .. 9
    THEN [op |-> "positionObstacleForHole", layout |-> holeNumber,
          xz |-> <<obstaclePositions[holeNumber][(index % 5) + 1]>>]
    ELSE [op |-> "positionObstacleForHole", layout |-> 0, xz |-> << >>]

\* Game.getHoleConfigForScorecard(holeNumber).par: the par of the game's
\* own table, << >> where the table has no entry
getHoleConfigForScorecard(holeNumber) ==
    LET pars == <<2, 3, 4, 4, 5, 5, 6, 6, 7>>
    IN  [op |-> "getHoleConfigForScorecard",
         par |-> IF holeNumber \in 1 .. Len(pars) THEN <<pars[holeNumber]>>
                 ELSE << >>]

InitConfig ==
    /\ args \in ((0 - MaxHoleInput) .. MaxHoleInput) \X (0 .. 4)
    /\ result = [op |-> "new"]
    /\ mode = "full"
    /\ currentHole = 1
    /\ strokeCount = 0
    /\ completedHoles = {}
    /\ scorecard = << >>
    /\ course = createHole(1)
    /\ ball = setPosition(newBall, createHole(1).startPosition)
    /\ obstacleManager = newObstacleManager(1)
    /\ droneManager = "undefined"
    /\ inputHandler = [isCharging |-> FALSE, power |-> 0]
    /\ timers = << >>
    /\ restartMessage = "none"
    /\ lastOp = [trace |-> << >>, written |-> {}, marked |-> {}]

CallCreateHole ==
    /\ result.op = "new"
    /\ result' = Course_createHole(args[1])
    /\ UNCHANGED <<args, gameVars>>

CallPositionObstacle ==
    /\ result.op = "new"
    /\ result' = positionObstacleForHole(args[1], args[2])
    /\ UNCHANGED <<args, gameVars>>

CallParLookup ==
    /\ result.op = "new"
    /\ result' = getHoleConfigForScorecard(args[1])
    /\ UNCHANGED <<args, gameVars>>

NextConfig ==
    \/ CallCreateHole
    \/ CallPositionObstacle
    \/ CallParLookup

SpecConfig == InitConfig /\ [][NextConfig]_vars

(***************************************************************************)
(* Course.checkBounds on its own: called once for the course of hole       *)
(* args[1] with a ball at args[2] = <<x, y, z>> (tenths of a unit).        *)
(***************************************************************************)
\* sample positions: the centre, inside a ring's inner edge, on the ground
\* of every course, beyond every margin; below the fall limits, between
\* them, on the ground, at the wall height, just above it and lofted
BoundsXs == {-1000, 0, 50, 1000}
BoundsYs == {-60, -40, 5, 8, 9, 100}
BoundsZs == {0, 250, 1000}

InitBounds ==
    /\ args \in (1 .. 9) \X (BoundsXs \X BoundsYs \X BoundsZs)
    /\ result = [op |-> "new"]
    /\ mode = "full"
    /\ currentHole = 1
    /\ strokeCount = 0
    /\ completedHoles = {}
    /\ scorecard = << >>
    /\ course = createHole(1)
    /\ ball = setPosition(newBall, createHole(1).startPosition)
    /\ obstacleManager = newObstacleManager(1)
    /\ droneManager = "undefined"
    /\ inputHandler = [isCharging |-> FALSE, power |-> 0]
    /\ timers = << >>
    /\ restartMessage = "none"
    /\ lastOp = [trace |-> << >>, written |-> {}, marked |-> {}]

CallCheckBounds ==
    /\ result.op = "new"
    /\ result' = [op |-> "checkBounds", out |-> checkBounds(args[1], args[2])]
    /\ UNCHANGED <<args, gameVars>>

NextBounds == CallCheckBounds

SpecBounds == InitBounds /\ [][NextBounds]_vars

(***************************************************************************)
(* The drones (DroneManager of drones.js) and the Game that flies them:    *)
(* the Game of part_002:1936-2200 with the Ball of part_004, whose         *)
(* minSpeed is 0.01.  Units are those of the Ball in numbers.  A vector    *)
(* whose components are all NaN is written NaN3; arithmetic on it gives    *)
(* NaN3 and every comparison with it is false.                             *)
(***************************************************************************)
NaN3 == << >>
IsNaN(v) == Len(v) = 0

\* DroneManager.createDrone: the four waypoints of drone index
patrolPath(index) ==
    LET pathRadius == (8 + index * 3) * 100
        pathOffset == <<(index - 1) * 1000, (3 + index) * 100,
                        (0 - 10 - index * 5) * 100>>
    IN  << <<pathOffset[1] + pathRadius, pathOffset[2], pathOffset[3]>>,
           <<pathOffset[1], pathOffset[2], pathOffset[3] + pathRadius>>,
           <<pathOffset[1] - pathRadius, pathOffset[2], pathOffset[3]>>,
           <<pathOffset[1], pathOffset[2], pathOffset[3] - pathRadius>> >>

\* DroneManager.createDrone; speed is the draw 3 + Math.random() * 2
createDrone(index, speed) ==
    [index |-> index, radius |-> 120, currentPathIndex |-> 0, speed |-> speed,
     velocity |-> <<0, 0, 0>>, position |-> patrolPath(index)[1]]

\* DroneManager.createDrones
createDrones(holeNumber, speed) ==
    IF holeNumber < 5 THEN << >>
    ELSE [i \in 1 .. Min(holeNumber - 4, 4) |-> createDrone(i - 1, speed)]

\* DroneManager.updateDrone.  divideScalar(delta) multiplies by 1 / delta:
\* with delta = 0 the displacement (0, 0, 0) times Infinity is NaN3.
\* velocity.normalize() in the look-at test leaves drone.velocity of
\* length 1.
updateDrone(drone, delta) ==
    LET prevPos == drone.position
        targetPoint == patrolPath(drone.index)[drone.currentPathIndex + 1]
        d == [i \in 1 .. 3 |-> targetPoint[i] - drone.position[i]]
        distance == ISqrt(LengthSq(d))
        arrived == LengthSq(d) < Sq(100)
        step == DivT(drone.speed * delta, 1000)
        position == IF arrived THEN drone.position
                    ELSE [i \in 1 .. 3 |->
                             drone.position[i] + DivT(d[i] * step, distance)]
        velocity == IF delta = 0 THEN NaN3
                    ELSE [i \in 1 .. 3 |->
                             DivT((position[i] - prevPos[i]) * 1000, delta)]
        facing == The({IF IsNaN(v) THEN v
                       ELSE IF LengthSq(v) > Sq(10)
                       THEN [i \in 1 .. 3 |->
                                DivT(v[i] * 100, ISqrt(LengthSq(v)))]
                       ELSE v : v \in {velocity}})
    IN  [drone EXCEPT
            !.currentPathIndex = IF arrived THEN (@ + 1) % Len(patrolPath(drone.index))
                                 ELSE @,
            !.position = position,
            !.velocity = facing]

\* DroneManager.animateDrone: the hover bob sin(time * 3) * 0.01 added to y
animateDrone(drone, bob) ==
    [drone EXCEPT !.position = <<@[1], @[2] + bob, @[3]>>]

\* DroneManager.update(delta) on the roster drones
DroneManager_update(drones, delta, bob) ==
    [i \in 1 .. Len(drones) |-> animateDrone(updateDrone(drones[i], delta), bob)]

\* Ball.minSpeed of part_004
minSpeed4 == 1

\* a drone collision that resets the ball as a black hole does
Ball_handleDroneCollisionReset(b, drone) ==
    Ball_setPosition(b, <<0, 0, 0>>)

\* Ball.handleDroneCollision(drone): drone.velocity is always an object, so
\* the branch taken adds half of it
Ball_handleDroneCollision(b, drone) ==
    [b EXCEPT !.velocity = IF IsNaN(@) \/ IsNaN(drone.velocity) THEN NaN3
                           ELSE [i \in 1 .. 3 |->
                                    @[i] + DivT(drone.velocity[i] * 5, 10)],
              !.isMoving = TRUE]

\* Ball.update(delta) of part_004.  With a NaN velocity every comparison is
\* false: the position becomes NaN and the ball keeps moving.
Ball4_update(b, delta) ==
    IF IsNaN(b.velocity)
    THEN IF b.isMoving THEN [b EXCEPT !.position = NaN3] ELSE b
    ELSE IF ~b.isMoving /\ LengthSq(b.velocity) < Sq(minSpeed4) THEN b
    ELSE LET vy1 == b.velocity[2] - DivT(gravity * delta, 1000)
             x1 == b.position[1] + DivT(b.velocity[1] * delta, 1000)
             y1 == b.position[2] + DivT(vy1 * delta, 1000)
             z1 == b.position[3] + DivT(b.velocity[3] * delta, 1000)
             ground == y1 < Ball_radius
             y2 == IF ground THEN Ball_radius ELSE y1
             vy2 == IF ground THEN DivT(vy1 * (0 - bounciness), 100) ELSE vy1
             vx2 == IF ground THEN DivT(b.velocity[1] * friction, 100)
                    ELSE b.velocity[1]
             vz2 == IF ground THEN DivT(b.velocity[3] * friction, 100)
                    ELSE b.velocity[3]
             vx3 == DivT(vx2 * 995, 1000)
             vz3 == DivT(vz2 * 995, 1000)
             stopped == /\ LengthSq(<<vx3, vy2, vz3>>) < Sq(minSpeed4)
                        /\ y2 <= Ball_radius + 1
         IN  IF stopped
             THEN [position |-> <<x1, y2, z1>>, velocity |-> <<0, 0, 0>>,
                   isMoving |-> FALSE]
             ELSE [position |-> <<x1, y2, z1>>, velocity |-> <<vx3, vy2, vz3>>,
                   isMoving |-> b.isMoving]

\* Ball.checkCollision of part_004: a NaN distance is not below any radius
Ball4_checkCollision(b, o) ==
    ~IsNaN(b.position) /\ Ball_checkCollision(b, o)

\* Ball.handleCollision of part_004: the same arithmetic as Ball_handleCollision;
\* a NaN velocity stays NaN while the push acts on the position
Ball4_handleCollision(b, o) ==
    IF IsNaN(b.velocity)
    THEN [Ball_handleCollision([b EXCEPT !.velocity = <<0, 0, 0>>], o)
             EXCEPT !.velocity = NaN3]
    ELSE Ball_handleCollision(b, o)

\* ObstacleManager.createObstacle of obstacles.js:27-238: as createObstacle,
\* but a star moves like every other obstacle (its movement type goes by
\* its index)
createObstacle1(holeNumber, index) ==
    LET o == createObstacle(holeNumber, index)
        types == <<"oscillate", "circular", "static">>
    IN  IF o.objectType = "star"
        THEN [o EXCEPT !.movementType = types[(index % 3) + 1],
                       !.movementRange = MovementRange]
        ELSE o

\* the obstacles of hole holeNumber (1 to 8) in the frame of phase sample
\* k, as the ObstacleManager of obstacles.js:8-473 makes them: no black
\* holes, no extra UFOs
obstacles3(holeNumber, k) ==
    [i \in 1 .. Min(holeNumber, 5) |->
        LET o == createObstacle1(holeNumber, i - 1)
            p == obstaclePosition(o, k)
        IN  [position |-> <<p[1] * 10, p[2] * 10, p[3] * 10>>,
             radius |-> o.radius * 10]]

RECURSIVE Game3_obstacleLoop(_, _, _)
Game3_obstacleLoop(b, os, i) ==
    IF i > Len(os) THEN b
    ELSE Game3_obstacleLoop(IF Ball4_checkCollision(b, os[i])
                            THEN Ball4_handleCollision(b, os[i]) ELSE b,
                            os, i + 1)

RECURSIVE Game3_droneLoop(_, _)
Game3_droneLoop(g, i) ==
    IF i > Len(g.drones) THEN g
    ELSE Game3_droneLoop(
             IF Ball4_checkCollision(g.ball, g.drones[i])
             THEN [g EXCEPT !.ball = Ball_handleDroneCollision(@, g.drones[i])]
             ELSE g, i + 1)

\* Game.checkCollisions of part_002:2149-2168 on the game record
\* [currentHole, strokeCount, ball, drones, roster]: the obstacle loop, the
\* drone loop and a checkBounds whose result is dropped
Game3_checkCollisions(g, k) ==
    Game3_droneLoop(
        [g EXCEPT !.ball = Game3_obstacleLoop(@, obstacles3(g.roster, k), 1)], 1)

(***************************************************************************)
(* The drone game on its own: a game on a hole with drones receives the    *)
(* calls Game.update makes, in any order.  result is [game, op, calls]     *)
(* with game = [currentHole, strokeCount, ball, drones, roster]; roster is *)
(* the hole whose obstacles are on the course; args is <<speed>>, the      *)
(* speed drawn for the drones.                                             *)
(***************************************************************************)
\* the holes: hole 5 is the first with a drone
DroneHoles == {5}
\* the draws of the drone speed: 3.0 and 4.9
DroneSpeeds == {300, 490}
\* the frame deltas: the first getDelta() of the clock is 0
DroneDeltas == {0, 250}
\* the hover bob of a frame
DroneBobs == {-1, 0, 1}

\* a ball at rest on the start of hole h after no stroke, and a ball after
\* one stroke in flight under the first waypoint of drone 0
DroneBalls(h) ==
    { [strokeCount |-> 0,
        ball |-> Ball_setPosition(Ball_new, <<getHoleConfig(h).start[1] * 10, 0,
                                              getHoleConfig(h).start[2] * 10>>)],
      [strokeCount |-> 1,
        ball |-> [position |-> <<patrolPath(0)[1][1], 150, patrolPath(0)[1][3]>>,
                  velocity |-> <<0, 50, -400>>, isMoving |-> TRUE]] }

InitDrone ==
    /\ args \in {<<s>> : s \in DroneSpeeds}
    /\ \E h \in DroneHoles : \E sb \in DroneBalls(h) :
           result = [op |-> "new", calls |-> 0,
                     game |-> [currentHole |-> h, strokeCount |-> sb.strokeCount,
                               ball |-> sb.ball,
                               drones |-> createDrones(h, args[1]),
                               roster |-> h]]
    /\ mode = "full"
    /\ currentHole = 1
    /\ strokeCount = 0
    /\ completedHoles = {}
    /\ scorecard = << >>
    /\ course = createHole(1)
    /\ ball = setPosition(newBall, createHole(1).startPosition)
    /\ obstacleManager = newObstacleManager(1)
    /\ droneManager = "undefined"
    /\ inputHandler = [isCharging |-> FALSE, power |-> 0]
    /\ timers = << >>
    /\ restartMessage = "none"
    /\ lastOp = [trace |-> << >>, written |-> {}, marked |-> {}]

\* the state after the call op has left the game g
DroneCommit(g, op) ==
    /\ result' = [game |-> g, op |-> op, calls |-> result.calls + 1]
    /\ UNCHANGED <<args, gameVars>>

CallDroneUpdate ==
    /\ result.calls < MaxCalls
    /\ \E delta \in DroneDeltas, bob \in DroneBobs :
           DroneCommit([result.game EXCEPT
                           !.drones = DroneManager_update(@, delta, bob)],
                       "DroneManager.update")

CallBall4Update ==
    /\ result.calls < MaxCalls
    /\ \E delta \in DroneDeltas :
           DroneCommit([result.game EXCEPT !.ball = Ball4_update(@, delta)],
                       "Ball.update")

CallCheckCollisions ==
    /\ result.calls < MaxCalls
    /\ \E k \in PhaseSamples :
           DroneCommit(Game3_checkCollisions(result.game, k), "checkCollisions")

NextDrone ==
    \/ CallDroneUpdate
    \/ CallBall4Update
    \/ CallCheckCollisions

SpecDrone == InitDrone /\ [][NextDrone]_vars

(***************************************************************************)
(* One drone's patrol on its own: DroneManager.update called once a frame  *)
(* by the animation loop, with the frame delta the clock returned.         *)
(***************************************************************************)

\* the period 2 * pi / 3 s of the hover bob sin(time * 3), in ms
BobPeriod == 2094

\* Math.sin(this.time * 3) * 0.01 on the grid of 0.01: 1 where the sine is
\* at least 0.5, -1 where it is at most -0.5, 0 elsewhere
hoverBob(time) ==
    LET t == (time % BobPeriod) * 12
    IN  IF t >= BobPeriod /\ t <= 5 * BobPeriod THEN 1
        ELSE IF t >= 7 * BobPeriod /\ t <= 11 * BobPeriod THEN -1
        ELSE 0

\* the frame delta of a run, in ms: a steady pi / 9 s and a steady pi / 3 s
\* (Game.update passes clock.getDelta() unclamped), after which time * 3
\* is back at the same angle in 6 and in 2 frames
PatrolDeltas == {349, 1047}
\* the drones followed: the first and the second of the roster
PatrolIndexes == {0, 1}

InitPatrol ==
    /\ args \in {<<delta, index, speed>> : delta \in PatrolDeltas,
                                            index \in PatrolIndexes,
                                            speed \in DroneSpeeds}
    /\ result = [op |-> "new", time |-> 0,
                 drone |-> createDrone(args[2], args[3])]
    /\ mode = "full"
    /\ currentHole = 1
    /\ strokeCount = 0
    /\ completedHoles = {}
    /\ scorecard = << >>
    /\ course = createHole(1)
    /\ ball = setPosition(newBall, createHole(1).startPosition)
    /\ obstacleManager = newObstacleManager(1)
    /\ droneManager = "undefined"
    /\ inputHandler = [isCharging |-> FALSE, power |-> 0]
    /\ timers = << >>
    /\ restartMessage = "none"
    /\ lastOp = [trace |-> << >>, written |-> {}, marked |-> {}]

\* one frame: DroneManager.update(delta), this.time += delta first
PatrolUpdate ==
    /\ \E time \in {(result.time + args[1]) % BobPeriod} :
           result' = [op |-> "DroneManager.update", time |-> time,
                      drone |-> DroneManager_update(<<result.drone>>, args[1],
                                                    hoverBob(time))[1]]
    /\ UNCHANGED <<args, gameVars>>

NextPatrol == PatrolUpdate

SpecPatrol == InitPatrol /\ [][NextPatrol]_vars /\ WF_vars(PatrolUpdate)

(***************************************************************************)
(* Properties.  Ran(name) says that the step now being taken is a handler  *)
(* that called name; Did(name) says the same of the handler that ran last. *)
(***************************************************************************)
Ran(name) == \E i \in 1 .. Len(lastOp'.trace) : lastOp'.trace[i] = name

Did(name) == \E i \in 1 .. Len(lastOp.trace) : lastOp.trace[i] = name

\* C1: a frame that completes hole h writes exactly one scorecard entry,
\* keyed by h, with strokes = strokeCount as it was at that moment, par = the
\* course's par for h and the label of (strokes, par), and adds h to
\* completedHoles in the same step.
C1_OneEntryPerCompletion ==
    [][Ran("onHoleComplete") =>
         LET h == currentHole
             par == configs[h].par
             entry == [strokes |-> strokeCount, par |-> par,
                       score |-> getGolfScoreTerminology(strokeCount, par)]
         IN  /\ lastOp'.written = {[hole |-> h, entry |-> entry]}
             /\ lastOp'.marked = {h}
             /\ h < 9 => /\ h \in completedHoles'
                         /\ h \in DOMAIN scorecard'
                         /\ scorecard'[h] = entry]_vars

C1_Witness ==
    /\ Did("onHoleComplete")
    /\ \E w \in lastOp.written :
          /\ w.entry.strokes >= 1
          /\ w.hole \in completedHoles
          /\ w.hole \in DOMAIN scorecard
          /\ scorecard[w.hole] = w.entry

\* C3: completing hole 9 sets currentHole to 1 and strokeCount to 0 and
\* empties completedHoles and scorecard: no entry of the finished round,
\* the one just written for hole 9 included, remains.
C3_WrapStartsFreshRound ==
    [][Ran("onHoleComplete") /\ currentHole = 9 =>
         /\ currentHole' = 1
         /\ strokeCount' = 0
         /\ completedHoles' = {}
         /\ DOMAIN scorecard' = {}]_vars

C3_Witness ==
    /\ Did("onHoleComplete")
    /\ \E w \in lastOp.written : w.hole = 9
    /\ currentHole = 1
    /\ DOMAIN scorecard = {}

C5_LabelTable ==
    result # "" =>
        LET d == args[1] - args[2]
            table == <<"DOUBLE EAGLE!", "EAGLE!", "Birdie!", "Par", "Bogey",
                       "Double Bogey", "Triple Bogey">>
        IN  result = CASE args[1] = 1 -> "HOLE-IN-ONE! (Ace)"
                       [] args[1] # 1 /\ d >= 4 -> ToString(d) \o " Over Par"
                       [] OTHER -> table[Max(d, -3) + 4]

C5_Witness == args = <<7, 3>> /\ result = "4 Over Par"

\* C2: every shoot-release event increases strokeCount by exactly 1,
\* whatever the state of the ball, and the increment comes before the call
\* of Ball.shoot().
C2_EveryReleaseCounts ==
    [][Ran("onKeyUp") =>
         /\ strokeCount' = strokeCount + 1
         /\ \A i \in 1 .. Len(lastOp'.trace) :
               lastOp'.trace[i] = "Ball.shoot" =>
                   \E j \in 1 .. i - 1 : lastOp'.trace[j] = "onStroke"]_vars

\* C2 as amended: a shoot-release event increases strokeCount by exactly 1
\* when a charge is in progress and the ball is not moving, and then the
\* increment comes after the call of Ball.shoot(); any other release calls
\* neither Ball.shoot() nor onStroke() and leaves strokeCount and the ball
\* as they are.
C2_ChargedReleaseCounts ==
    [][Ran("onKeyUp") =>
         IF inputHandler.isCharging /\ ~ball.isMoving
         THEN /\ strokeCount' = strokeCount + 1
              /\ lastOp'.trace = <<"onKeyUp", "Ball.shoot", "onStroke">>
              /\ ball'.isMoving
         ELSE /\ strokeCount' = strokeCount
              /\ lastOp'.trace = <<"onKeyUp">>
              /\ ball' = ball]_vars

C2_Witness ==
    /\ lastOp.trace = <<"onKeyUp", "Ball.shoot", "onStroke">>
    /\ strokeCount = 1
    /\ ball.isMoving

\* C6: an out-of-bounds restart leaves strokeCount, currentHole, scorecard
\* and completedHoles exactly as they were.
C6_RestartKeepsStrokes ==
    [][Ran("restartLevel") =>
         /\ strokeCount' = strokeCount
         /\ currentHole' = currentHole
         /\ scorecard' = scorecard
         /\ completedHoles' = completedHoles]_vars

C6_Witness ==
    /\ Did("restartLevel")
    /\ strokeCount >= 1
    /\ currentHole = 2
    /\ DOMAIN scorecard = {1}

\* C7: a frame whose bounds test reports the ball out of bounds ends with
\* the ball on the start position of the current course with zero velocity
\* and isMoving false, and with the obstacle roster (and the drone roster,
\* where there is one) created anew for the current hole.
C7_OutOfBoundsResets ==
    [][Ran("outOfBounds") =>
         /\ ball' = [position |-> <<configs[currentHole].start[1], BallRadius,
                                    configs[currentHole].start[2]>>,
                     velocity |-> "zero", isMoving |-> FALSE]
         /\ course' = course
         /\ obstacleManager' = [holeNumber |-> currentHole, time |-> 0]
         /\ droneManager' # "undefined" =>
                droneManager' = [holeNumber |-> currentHole]]_vars

C7_Witness ==
    /\ Did("outOfBounds")
    /\ currentHole = 9
    /\ strokeCount = 1
    /\ ball.position = <<-300, BallRadius, 300>>
    /\ ~ball.isMoving
    /\ obstacleManager.time = 0

\* the ball b overlaps a black hole of the current roster
onBlackHole(b) ==
    LET roster == getObstacles(obstacleManager)
    IN  \E i \in 1 .. Len(roster) :
            /\ roster[i].isBlackHole
            /\ checkCollision(b, roster[i].initialPosition, roster[i].radius)

\* C8: in the frame in which the ball touches a black hole its velocity
\* becomes zero and isMoving false, the ball is not yet moved to the start
\* (it still lies on the black hole), and strokeCount is changed neither by
\* the absorption nor by the later teleport.
C8_AbsorptionStopsBall ==
    [][/\ Ran("handleBlackHoleCollision") =>
             /\ ball'.velocity = "zero"
             /\ ~ball'.isMoving
             /\ onBlackHole(ball')
             /\ <<ball'.position[1], ball'.position[3]>> # course.startPosition
             /\ strokeCount' = strokeCount
       /\ Ran("blackHoleTimeout") => strokeCount' = strokeCount]_vars

C8_Witness ==
    /\ Did("handleBlackHoleCollision")
    /\ strokeCount = 1
    /\ ~ball.isMoving
    /\ onBlackHole(ball)
    /\ Len(timers) = 1

\* C9: after every black-hole absorption the deferred callback eventually
\* runs and puts the ball on the start position of the course, and a click
\* that dismisses the message leaves the pending callbacks and their due
\* times as they are.
C9_ResetAlwaysFires ==
    /\ Did("handleBlackHoleCollision") ~>
          /\ Did("blackHoleTimeout")
          /\ ball = [position |-> <<course.startPosition[1], BallRadius,
                                    course.startPosition[2]>>,
                     velocity |-> "zero", isMoving |-> FALSE]
    /\ [][Ran("clickHandler") => timers' = timers]_vars

C9_Witness ==
    /\ Did("blackHoleTimeout")
    /\ restartMessage = "none"
    /\ Len(timers) = 0
    /\ <<ball.position[1], ball.position[3]>> = course.startPosition

\* C10: one absorption arms exactly one deferred teleport, due 500 ms
\* later, and a frame that finds the stopped ball still on the black hole
\* while that teleport is pending arms no further one.
C10_OneTeleportPerAbsorption ==
    [][/\ Ran("handleBlackHoleCollision") /\ ball.isMoving =>
             timers' = Append([i \in 1 .. Len(timers) |-> timers'[i]], BlackHoleDelay)
       /\ (Len(timers) > 0 /\ ~ball.isMoving /\ onBlackHole(ball)) =>
             Len(timers') <= Len(timers)]_vars

\* the course of hole h is the ring
IsRing(h) == configs[h].groundShape = "donut"

\* pos lies above the hole in the middle of the ring of hole h
InDonutCentre(h, pos) ==
    Sq(pos[1]) + Sq(pos[3]) < Sq(configs[h].groundSize.innerRadius)

\* C11: on every ring-shaped hole a ball that a frame finds inside the inner
\* radius falls through in that frame (ball on the start, obstacles
\* regenerated, strokeCount kept), so no step leaves the ball inside the
\* inner radius of a ring; and the fall-through fires on ring holes only.
C11_FallThroughOnEveryRing ==
    [][/\ Ran("handleDonutCenterCollision") =>
              /\ IsRing(currentHole)
              /\ ball' = setPosition(ball, course.startPosition)
              /\ obstacleManager' = newObstacleManager(currentHole)
              /\ strokeCount' = strokeCount
       /\ IsRing(currentHole') => ~InDonutCentre(currentHole', ball'.position)]_vars

\* C12: a shoot request made while canShoot() is false changes nothing of
\* the ball (position, velocity, isMoving), through InputHandler.shoot and
\* through Ball.shoot itself.
C12_ShootIgnoredWhileMoving ==
    [][(/\ result'.op \in {"Ball.shoot", "InputHandler.shoot"}
        /\ result'.calls = result.calls + 1
        /\ ~Ball_canShoot(result.ball))
       => result'.ball = result.ball]_vars

\* the scene of hole n as rebuildScene leaves it: course, ball at rest on
\* the start, fresh obstacle set
SceneOf(n) ==
    /\ course' = [currentHoleNumber |-> n, par |-> configs[n].par,
                  startPosition |-> configs[n].start,
                  holePosition |-> configs[n].hole]
    /\ ball' = [position |-> <<configs[n].start[1], BallRadius, configs[n].start[2]>>,
                velocity |-> "zero", isMoving |-> FALSE]
    /\ obstacleManager' = [holeNumber |-> n, time |-> 0]

\* C13: switchToHole(n) with n in 1..9 sets currentHole to n and strokeCount
\* to 0, rebuilds course, ball and obstacles for hole n and leaves scorecard
\* and completedHoles as they are; with n outside 1..9 it changes nothing.
C13_SwitchToHole ==
    [][\A n \in HoleInputs :
          (\E g \in {switchToHole(Game, n)} : Commit(g)) =>
              IF n \in 1 .. 9
              THEN /\ currentHole' = n
                   /\ strokeCount' = 0
                   /\ SceneOf(n)
                   /\ UNCHANGED <<scorecard, completedHoles>>
              ELSE UNCHANGED <<mode, currentHole, strokeCount, completedHoles,
                               scorecard, course, ball, obstacleManager,
                               droneManager, inputHandler, timers,
                               restartMessage>>]_vars

C13_Witness ==
    /\ Did("switchToHole")
    /\ currentHole = 9
    /\ strokeCount = 0
    /\ DOMAIN scorecard = {1}
    /\ completedHoles = {1}
    /\ ball.position = <<configs[9].start[1], BallRadius, configs[9].start[2]>>

\* C14: setMode(m) with m other than the current mode rebuilds course, ball
\* and obstacle set for the current hole and changes nothing else:
\* currentHole, strokeCount, scorecard and completedHoles stay; setMode with
\* the current mode changes nothing, the ball included.
C14_SetModeRebuildsOnly ==
    [][\A m \in Modes :
          (\E g \in {setMode(Game, m)} : Commit(g)) =>
              IF m # mode
              THEN /\ mode' = m
                   /\ SceneOf(currentHole)
                   /\ UNCHANGED <<currentHole, strokeCount, scorecard,
                                  completedHoles, droneManager, inputHandler,
                                  timers, restartMessage>>
              ELSE UNCHANGED <<mode, currentHole, strokeCount, completedHoles,
                               scorecard, course, ball, obstacleManager,
                               droneManager, inputHandler, timers,
                               restartMessage>>]_vars

C14_Witness ==
    /\ Did("setMode")
    /\ mode = "prototype"
    /\ currentHole = 2
    /\ strokeCount = 1
    /\ DOMAIN scorecard = {1}
    /\ ball.position = <<configs[2].start[1], BallRadius, configs[2].start[2]>>

\* C15: in every reachable state currentHole is an integer in 1..9 and
\* strokeCount is an integer >= 0.
C15_ProgressionInRange ==
    /\ currentHole \in 1 .. 9
    /\ strokeCount \in Nat

C15_Witness ==
    /\ Did("onStroke")
    /\ currentHole = 9
    /\ strokeCount = MaxStrokes
    /\ DOMAIN scorecard # {}

\* C16: the course and obstacle configuration lookups give a defined
\* configuration for every integer hole number: the hole's own for 1..9,
\* and for any number above 9 or below 1 the last valid one (hole 9), never
\* an undefined configuration or an error.
C16_LookupsClamp ==
    LET n == args[1]
        last == Len(configs)
    IN  /\ result.op = "createHole" =>
              /\ ~result.threw
              /\ result.config = <<configs[IF n \in 1 .. last THEN n ELSE last]>>
        /\ result.op = "positionObstacleForHole" =>
              result.layout = IF n \in 1 .. last THEN n ELSE last

\* C17: the terminal events of a frame are taken in the order donut-centre
\* fall-through, black-hole absorption, obstacle bounce, wall reflection,
\* out-of-bounds, hole completion: a frame that absorbs the ball has applied
\* no bounce before the absorption, and a frame in which the fall-through or
\* an absorption fires applies no other collision, bounds or completion
\* response.
C17_EventPriority ==
    [][/\ Ran("handleBlackHoleCollision") =>
              lastOp'.trace = <<"handleBlackHoleCollision">>
       /\ Ran("handleDonutCenterCollision") =>
              lastOp'.trace = <<"handleDonutCenterCollision">>]_vars

\* C18: after every Ball.update(dt), for any dt >= 0 and whatever happened
\* to the ball before it (the push-out of an obstacle included), the ball's
\* position.y is at least its radius.
C18_GroundClamp ==
    result.op = "Ball.update" => result.ball.position[2] >= Ball_radius

\* C19: a ball shot with any power in (0, 1] on a course without obstacles
\* reaches isMoving = false after finitely many Ball.update(dt) steps, for
\* any fixed positive frame delta dt.
C19_RestConvergence ==
    (result.op = "InputHandler.shoot") ~> (~result.ball.isMoving)

\* the centre distance of ball b and obstacle o is at least the sum of
\* their radii, up to the rounding of the arithmetic (two hundredths)
Apart(b, o) ==
    LET d == [i \in 1 .. 3 |-> b.position[i] - o.position[i]]
    IN  LengthSq(d) >= Sq(Ball_radius + o.radius - 2)

\* C20: whenever the centre distance of the ball and a static obstacle of
\* radius r is below ball.radius + r before Ball.handleCollision, it is at
\* least ball.radius + r after it, for every relative position, the ball
\* exactly at the obstacle's centre included.
C20_NoOverlapAfterResolution ==
    [][\A o \in BallObstacles :
          (/\ Ball_checkCollision(result.ball, o)
           /\ result'.op = "Ball.handleCollision"
           /\ result'.calls = result.calls + 1
           /\ result'.ball = Ball_handleCollision(result.ball, o))
          => Apart(result'.ball, o)]_vars

\* the ball is horizontally beyond the safety margin of the course of hole
\* h: a ball at that place on the ground plane is ruled out
BeyondMargin(h, pos) == checkBounds(h, <<pos[1], 0, pos[3]>>)

\* C21: on every course, checkBounds reports out of bounds exactly when the
\* ball is horizontally beyond the safety margin and at or below the wall
\* height (y <= 0.8), or when y < -5; so a ball above the wall height is
\* never out by its horizontal position alone.
C21_BoundsByShape ==
    result.op = "checkBounds" =>
        result.out = \/ BeyondMargin(args[1], args[2]) /\ args[2][2] <= 8
                     \/ args[2][2] < -50

\* C22: no degenerate computation puts NaN into the ball: after every call,
\* a collision on an obstacle's centre and a drone updated with dt = 0
\* included, the ball's position and velocity are defined.
C22_NoNaNInBall ==
    /\ ~IsNaN(result.game.ball.position)
    /\ ~IsNaN(result.game.ball.velocity)

\* C23: for every hole number n in 1..9 the par of the game's per-hole par
\* lookup equals the par of the course configuration of n.
C23_ParLookupAgrees ==
    (result.op = "getHoleConfigForScorecard" /\ args[1] \in 1 .. 9)
        => result.par = <<getHoleConfig(args[1]).par>>

\* C24: the deferred reset armed by an absorption never interrupts a later
\* shot or a later hole: whenever the callback fires, the ball it
\* repositions is at rest, and the hole being played has a black hole (as
\* the hole of the absorption has).
C24_ResetNeverInterrupts ==
    [][Ran("blackHoleTimeout") =>
           /\ ~ball.isMoving
           /\ \E i \in 1 .. Len(getObstacles(obstacleManager)) :
                  getObstacles(obstacleManager)[i].isBlackHole]_vars

\* C25: whenever restartLevel runs, droneManager has been initialised, so
\* the restart runs to its end (it shows the restart message) and throws
\* nothing, and the rest of the frame's update still executes.
C25_RestartRunsToEnd ==
    [][Ran("restartLevel") =>
           /\ droneManager # "undefined"
           /\ ~Ran("TypeError")
           /\ restartMessage' = "block"]_vars

\* C26: in every reachable state completedHoles is the set of the hole
\* numbers that have a scorecard entry, and both hold only numbers in 1..9.
C26_CompletedIsCard ==
    /\ completedHoles = DOMAIN scorecard
    /\ completedHoles \subseteq 1 .. 9

\* a hole was completed, and switchToHole then left the card as it was
C26_Witness ==
    /\ Did("switchToHole")
    /\ completedHoles = {1}
    /\ DOMAIN scorecard = {1}
    /\ currentHole = 9

\* C27: in every state between two handlers (after a frame, setMode,
\* switchToHole, a restart or a hole completion) the Course's hole number,
\* par, start and cup positions and the obstacle roster are those of
\* currentHole.
C27_SceneBelongsToHole ==
    /\ course = createHole(currentHole)
    /\ obstacleManager.holeNumber = currentHole

\* a hole was completed and the scene is that of the next hole
C27_Witness ==
    /\ Did("onHoleComplete")
    /\ currentHole = 2
    /\ course.par = configs[2].par
    /\ obstacleManager.holeNumber = 2

\* C28: every scorecard entry records strokes >= 1, in the card and when
\* it is written: no hole is completed without a shot since hole entry.
C28_EntryHasStroke ==
    [][/\ \A w \in lastOp'.written : w.entry.strokes >= 1
       /\ \A h \in DOMAIN scorecard' : scorecard'[h].strokes >= 1]_vars

\* a hole was completed after a stroke
C28_Witness ==
    /\ Did("onHoleComplete")
    /\ \E w \in lastOp.written : w.entry.strokes = 1

\* the drones of game g that the ball b touches
TouchedDrones(g, b) ==
    {i \in 1 .. Len(g.drones) : Ball4_checkCollision(b, g.drones[i])}

\* C30: a collision between the ball and a drone is only a push.  In a call
\* of checkCollisions the drone loop leaves the ball where the obstacle
\* loop left it; if the ball touches a drone it is moving afterwards and
\* its velocity has gained half of the drone's velocity, and otherwise the
\* drone loop changes nothing; strokeCount, currentHole, the drones and the
\* obstacle roster are never changed.
C30_DroneCollisionIsPush ==
    [][(result'.op = "checkCollisions" /\ result'.calls = result.calls + 1) =>
           LET g == result.game
               h == result'.game
           IN  /\ h.currentHole = g.currentHole
               /\ h.strokeCount = g.strokeCount
               /\ h.drones = g.drones
               /\ h.roster = g.roster
               /\ \E k \in PhaseSamples :
                      LET b == Game3_obstacleLoop(g.ball, obstacles3(g.roster, k), 1)
                          touched == TouchedDrones(g, b)
                      IN  /\ h.ball.position = b.position
                          /\ touched = {} => h.ball = b
                          /\ \A i \in touched :
                                 /\ h.ball.isMoving
                                 /\ \/ IsNaN(g.drones[i].velocity)
                                    \/ IsNaN(b.velocity)
                                    \/ \A c \in 1 .. 3 :
                                           h.ball.velocity[c] - b.velocity[c]
                                               = DivT(g.drones[i].velocity[c] * 5, 10)]_vars

\* checkCollisions has just pushed a ball that a moving drone touched
C30_Witness ==
    /\ result.op = "checkCollisions"
    /\ result.game.ball.isMoving
    /\ ~IsNaN(result.game.ball.velocity)
    /\ result.game.ball.velocity # <<0, 50, -400>>
    /\ result.game.ball.position = <<patrolPath(0)[1][1], 150, patrolPath(0)[1][3]>>
    /\ \E i \in 1 .. Len(result.game.drones) :
           /\ Ball4_checkCollision(result.game.ball, result.game.drones[i])
           /\ ~IsNaN(result.game.drones[i].velocity)
           /\ result.game.drones[i].velocity # <<0, 0, 0>>

\* the drone is within distance 1 of the waypoint it is heading for
AtWaypoint(drone) ==
    LET targetPoint == patrolPath(drone.index)[drone.currentPathIndex + 1]
    IN  LengthSq([i \in 1 .. 3 |-> targetPoint[i] - drone.position[i]]) < Sq(100)

\* C29: a drone's currentPathIndex is always an index of its 4 waypoints,
\* it changes only to (index + 1) mod 4 and only in a frame that begins with
\* the drone within distance 1 of its current waypoint, and whatever
\* waypoint the drone is heading for, it eventually arrives there and heads
\* for the next one, at any positive frame delta.
C29_PatrolCycles ==
    /\ [](result.drone.currentPathIndex \in 0 .. 3)
    /\ [][result'.drone.currentPathIndex # result.drone.currentPathIndex =>
              /\ AtWaypoint(result.drone)
              /\ result'.drone.currentPathIndex
                     = (result.drone.currentPathIndex + 1) % 4]_vars
    /\ \A i \in 0 .. 3 :
           (result.drone.currentPathIndex = i)
               ~> (result.drone.currentPathIndex = (i + 1) % 4)

====
